---- MODULE Spec2Model ----
(***************************************************************************)
(* Playback session controller of the transcoding player screen            *)
(* (src/app/(auth)/player/transcoding-player.tsx).                         *)
(*                                                                         *)
(* The screen is a React function component.  Its state is the useState    *)
(* cells, the refs and shared values, the two react-query results (item    *)
(* and stream) and the playback engine behind the <Video> element.  Each   *)
(* callback of the component is one action.  Callbacks memoised with       *)
(* useCallback keep the values of the render that created them: play,      *)
(* pause and seek are created once (deps [videoRef]) and the focus effect  *)
(* is registered once (deps []), so these read the FIRST render's item     *)
(* and stream (mountItem, mountStream), not the current ones.              *)
(*                                                                         *)
(* Spec is the playback session.  The parts of the screen that do not      *)
(* interact with it have specifications of their own: TrackSpec is the     *)
(* subtitle track catalog and the initial subtitle selection, DownloadSpec *)
(* the DownloadItem buttons (src/unnamed/part_000) and the transfer they   *)
(* share.                                                                  *)
(***************************************************************************)
EXTENDS Integers, Sequences, FiniteSets, TLC

\* ---------------------------------------------------------------- bounds
\* Largest engine position sample, in seconds.
MaxTime == 1
\* Largest number of undelivered playback-state events of the engine.
MaxEvents == 1
\* Largest number of streams of a media source.
MaxStreams == 3
\* Largest number of track-discovery events of the engine.
MaxDiscoveries == 2
\* Largest progress a transfer reports before it ends.
MaxProgress == 1
\* Largest number of transfers in flight that is counted.
MaxTransfers == 2
MaxResolutions == 3
MaxSnapshots == 1

\* ------------------------------------------------------------- constants
\* 10,000,000 ticks are one second.
TicksPerSecond == 10000000
TicksPerMillisecond == 10000

\* The bitrate constraint: "max" is no constraint (undefined), "capped" a cap.
Bitrates == {"max", "capped"}
\* The bitrateValue parameter of the launch: absent.  Nothing in the session
\* tells one value of the parameter from another, so one launch value stands
\* for all.
LaunchBitrate == "max"
\* The shapes of a negotiated url.
Urls == {"master.m3u8", "stream.mp4"}
\* The display titles of streams.
Titles == {"English", "Director's Commentary"}
\* The subtitleIndex parameter when absent (undefined): no stream has it.
NoIndex == -1

VARIABLES
  api,                \* apiAtom holds a client
  itemStatus,         \* item query: "loading", "success", "null", "error"
  mountItem,          \* item was defined in the first render (cached)
  bitrateValue,       \* the bitrateValue route parameter
  stream,             \* data of the stream query (NoStream: undefined/null)
  streamStatus,       \* "idle", "loading", "refetching", "success", "error"
  mountStream,        \* stream as it was in the first render
  firstTime,          \* firstTime.current
  isPlaybackStopped,
  isPlaying,
  isBuffering,
  isSeeking,          \* isSeeking.value
  progress,           \* progress.value, ticks
  focused,            \* the screen has focus
  phase,              \* "render" (first render done, effects not yet run),
                      \* "mounted", "unmounted"
  engineLoaded,       \* the engine has loaded the current source
  enginePlaying,      \* the engine is playing
  stateEvents,        \* playback-state events emitted, not yet delivered
  sent,               \* the report the last step sent to the service
  startReports,       \* "start" reports sent: 0, 1, or 2 for two or more
  stoppedReports,     \* "stopped" reports sent: 0, 1, or 2 for two or more
  lastIntent,         \* the most recent of play() / pause(): its intent
  lastLoad,           \* the engine's latest load: "none", "first", "again"
  mediaStreams,       \* stream.mediaSource.MediaStreams
  subtitleIndex,      \* the subtitleIndex route parameter, or NoIndex
  selectedTextTrack,  \* selectedTextTrack: unset (undefined) or an index
  discoveries,        \* onTextTracks events so far
  applied,            \* times the effect set the initial selection: 0, 1, 2+
  process,            \* runningProcesses: the transfer in flight, if any
  playbackInfo,       \* per item, the playbackInfo query of its DownloadItem
  canDownload,        \* per item, item.CanDownload
  downloaded,         \* the items in the downloaded_files store
  activeTransfers,    \* transfers started and not yet ended
  pressOutcome,       \* what the last press of a DownloadItem did
  audioIndex,         \* the audioIndex parameter, NoIndex when absent
  mediaSourceId,      \* the mediaSourceId parameter, "" when absent
  fetchKey,           \* the key of the last negotiation request
  resolutions,        \* negotiation requests sent
  itemSnapshots,      \* refreshed snapshots of the item received
  playbackPositionTicks, \* item.UserData.PlaybackPositionTicks, or NoTicks
  startPosition,      \* videoSource.startPosition, NoSource without a source
  settled,            \* how the last settled report ended
  selectedAudioTrack  \* the audio track handed to the engine, if any

queryVars == <<api, itemStatus, mountItem, bitrateValue, stream, streamStatus,
               mountStream>>
playerVars == <<firstTime, isPlaybackStopped, isPlaying, isBuffering,
                isSeeking, progress>>
lifeVars == <<focused, phase>>
engineVars == <<engineLoaded, enginePlaying, stateEvents>>
reportVars == <<sent, startReports, stoppedReports>>
histVars == <<lastIntent, lastLoad>>
sessionVars == <<queryVars, playerVars, lifeVars, engineVars, reportVars, histVars>>
trackVars == <<mediaStreams, subtitleIndex, selectedTextTrack, discoveries, applied>>
downloadVars == <<process, playbackInfo, canDownload, downloaded,
                  activeTransfers, pressOutcome>>
\* What the playback session leaves alone, and what the track catalog does.
resolveVars == <<audioIndex, mediaSourceId, fetchKey, resolutions,
                 itemSnapshots>>
sourceVars == <<playbackPositionTicks, startPosition>>
restVars == <<resolveVars, sourceVars, settled, selectedAudioTrack>>
asideVars == <<trackVars, downloadVars, restVars>>
besideTracks == <<sessionVars, downloadVars, restVars>>
besideDownloads == <<sessionVars, trackVars, restVars>>
vars == <<sessionVars, trackVars, downloadVars, restVars>>

\* --------------------------------------------------------------- values
NoStream == [ok |-> FALSE, bitrate |-> "", url |-> ""]

\* What the query cache can hold for the stream query's key with bitrate b.
Cached(b) == {NoStream} \cup {[ok |-> TRUE, bitrate |-> b, url |-> u] : u \in Urls}

NoReport == [kind |-> "none", positionTicks |-> 0, isPaused |-> FALSE,
             playMethod |-> "none"]

secondsToTicks(seconds) == seconds * TicksPerSecond

\* stream?.url.includes("m3u8") ? "Transcode" : "DirectStream"
PlayMethod(s) == IF s.ok /\ s.url \in {"master.m3u8"} THEN "Transcode" ELSE "DirectStream"

\* The component is mounted and its effects have run.
Mounted == phase = "mounted"

\* `item` is truthy in the current render.
ItemLoaded == itemStatus = "success"

\* isLoadingItem || isLoadingStreamUrl: the loader replaces the screen.
IsLoading == itemStatus = "loading" \/ streamStatus = "loading"

\* useVideoSource: a source exists when item, api and the url exist.
VideoSource == ItemLoaded /\ api /\ stream.ok

\* isErrorItem || isErrorStreamUrl: the error text replaces the screen.
IsError == itemStatus = "error" \/ streamStatus = "error"

\* The render that goes on to the <Video> element whatever the queries say.
VideoAttachedIgnoresQueries == Mounted /\ VideoSource

\* The <Video> element is rendered, so videoRef.current is the engine.
VideoAttached == Mounted /\ ~IsLoading /\ ~IsError /\ VideoSource

\* The <Controls> element is rendered.
ControlsShown == Mounted /\ ~IsLoading /\ ~IsError /\ ItemLoaded

\* ------------------------------------------------------- the reporters
\* reportPlaybackStart of the render whose item and stream are given.
reportPlaybackStart(closItem, closStream) ==
  IF ~closItem THEN NoReport
  ELSE [kind |-> "start", positionTicks |-> 0, isPaused |-> FALSE,
        playMethod |-> PlayMethod(closStream)]

\* reportPlaybackStopped of the render whose item and stream are given;
\* progress is a shared value, read when the report is made.
reportPlaybackStopped(closItem, closStream) ==
  IF ~closItem THEN NoReport
  ELSE [kind |-> "stopped", positionTicks |-> progress, isPaused |-> FALSE,
        playMethod |-> "none"]

\* The onPlaybackProgress request of togglePlay and onProgress.
ProgressReport(ticks, paused) ==
  [kind |-> "progress", positionTicks |-> ticks, isPaused |-> paused,
   playMethod |-> PlayMethod(stream)]

\* One more report counted: none, one, or two for two or more.
Counted(n) == IF n = 0 THEN 1 ELSE 2

\* ----------------------------------------------------------- the engine
\* The events the engine has queued after videoRef.current?.resume().
ResumeEvents == IF VideoAttached /\ ~enginePlaying THEN Append(stateEvents, TRUE) ELSE stateEvents

\* The events the engine has queued after videoRef.current?.pause().
PauseEvents == IF VideoAttached /\ enginePlaying THEN Append(stateEvents, FALSE) ELSE stateEvents

\* The undelivered events fit the bound.
QueueOK(q) == Len(q) <= MaxEvents

\* A new source, or no <Video> element: the engine starts over.
EngineReset ==
  /\ engineLoaded' = FALSE
  /\ enginePlaying' = FALSE
  /\ stateEvents' = <<>>

\* ------------------------------------------------------ play, pause, stop
\* play(): resume the engine, then the first render's reportPlaybackStart.
play ==
  /\ QueueOK(ResumeEvents)
  /\ enginePlaying' = (VideoAttached \/ enginePlaying)
  /\ stateEvents' = ResumeEvents
  /\ sent' = reportPlaybackStart(mountItem, mountStream)
  /\ startReports' = IF mountItem THEN Counted(startReports) ELSE startReports
  /\ lastIntent' = "play"

\* pause(): pause the engine.
pause ==
  /\ QueueOK(PauseEvents)
  /\ enginePlaying' = FALSE
  /\ stateEvents' = PauseEvents
  /\ sent' = NoReport
  /\ lastIntent' = "pause"

\* stop() flipping the flag instead of setting it.
stopToggles(closItem, closStream) ==
  /\ QueueOK(PauseEvents)
  /\ isPlaybackStopped' = ~isPlaybackStopped
  /\ enginePlaying' = FALSE
  /\ stateEvents' = PauseEvents
  /\ sent' = reportPlaybackStopped(closItem, closStream)
  /\ stoppedReports' = IF closItem THEN Counted(stoppedReports) ELSE stoppedReports

\* stop() of the render whose item and stream are given.
stop(closItem, closStream) ==
  /\ QueueOK(PauseEvents)
  /\ isPlaybackStopped' = TRUE
  /\ enginePlaying' = FALSE
  /\ stateEvents' = PauseEvents
  /\ sent' = reportPlaybackStopped(closItem, closStream)
  /\ stoppedReports' = IF closItem THEN Counted(stoppedReports) ELSE stoppedReports

\* ------------------------------------------------------------------ Init
\* The state after the first render, before its effects run.  The item, and
\* with it the stream, are defined in the first render only if the query
\* cache already holds them.
SessionInit ==
  /\ api \in BOOLEAN
  /\ mountItem \in BOOLEAN
  /\ (mountItem => api)
  /\ itemStatus = IF mountItem THEN "success" ELSE "loading"
  /\ bitrateValue = LaunchBitrate
  /\ mountStream \in (IF mountItem THEN Cached(bitrateValue) ELSE {NoStream})
  /\ stream = mountStream
  /\ streamStatus = IF ~mountItem THEN "idle"
                    ELSE IF mountStream.ok THEN "refetching" ELSE "loading"
  /\ firstTime = TRUE
  /\ isPlaybackStopped = FALSE
  /\ isPlaying = FALSE
  /\ isBuffering = TRUE
  /\ isSeeking = FALSE
  /\ progress = 0
  /\ focused = FALSE
  /\ phase = "render"
  /\ engineLoaded = FALSE
  /\ enginePlaying = FALSE
  /\ stateEvents = <<>>
  /\ sent = NoReport
  /\ startReports = 0
  /\ stoppedReports = 0
  /\ lastIntent = "none"
  /\ lastLoad = "none"

\* No track has been selected: useState(undefined).
NoTrack == [set |-> FALSE, value |-> 0]

\* The track catalog before a media source is known.
TrackIdle ==
  /\ mediaStreams = <<>>
  /\ subtitleIndex = NoIndex
  /\ selectedTextTrack = NoTrack
  /\ discoveries = 0
  /\ applied = 0

\* No transfer is in flight: the atom holds null.
NoProcess == [running |-> FALSE, item |-> "", progress |-> 0]

\* The items that have a DownloadItem on screen.
Items == {"a", "b"}

\* No DownloadItem is on screen.
DownloadIdle ==
  /\ process = NoProcess
  /\ playbackInfo = [i \in Items |-> "loading"]
  /\ canDownload = [i \in Items |-> FALSE]
  /\ downloaded = {}
  /\ activeTransfers = 0
  /\ pressOutcome = "none"

\* The parameters of the launch other than the bitrate are absent, and no
\* negotiation request is counted.
NoKey == [audioIndex |-> NoIndex, subtitleIndex |-> NoIndex,
          bitrateValue |-> "", mediaSourceId |-> ""]

ResolveIdle ==
  /\ audioIndex = NoIndex
  /\ mediaSourceId = ""
  /\ fetchKey = NoKey
  /\ resolutions = 0
  /\ itemSnapshots = 0

\* The item carries no playback position and no source is looked at.
NoTicks == -1
NoSource == -1

SourceIdle ==
  /\ playbackPositionTicks = NoTicks
  /\ startPosition = NoSource

RestIdle ==
  /\ ResolveIdle /\ SourceIdle
  /\ settled = "none"
  /\ selectedAudioTrack = NoTrack

Init == SessionInit /\ TrackIdle /\ DownloadIdle /\ RestIdle

\* ------------------------------------------------------------ the queries
\* The stream query turns to a key for which the query cache holds c: cached
\* data is shown at once and refetched (staleTime 0), otherwise the query
\* loads.
StreamQueryFor(c) ==
  /\ stream' = c
  /\ streamStatus' = IF c.ok THEN "refetching" ELSE "loading"

\* The item query succeeds; `enabled: !!item` starts the stream query.
ItemQuerySuccess(c) ==
  /\ Mounted /\ api /\ itemStatus = "loading"
  /\ itemStatus' = "success"
  /\ StreamQueryFor(c)
  /\ EngineReset
  /\ sent' = NoReport
  /\ UNCHANGED <<asideVars, api, mountItem, bitrateValue, mountStream, playerVars, lifeVars,
                 startReports, stoppedReports, lastIntent, lastLoad>>

\* The item query's queryFn throws "No api".
ItemQueryError ==
  /\ Mounted /\ ~api /\ itemStatus = "loading"
  /\ itemStatus' = "error"
  /\ sent' = NoReport
  /\ UNCHANGED <<asideVars, api, mountItem, bitrateValue, stream, streamStatus,
                 mountStream,
                 playerVars, lifeVars, engineVars, startReports,
                 stoppedReports, lastIntent, lastLoad>>

\* The item query's queryFn returns null: there is no itemId.
ItemQueryNull ==
  /\ Mounted /\ api /\ itemStatus = "loading"
  /\ itemStatus' = "null"
  /\ sent' = NoReport
  /\ UNCHANGED <<asideVars, api, mountItem, bitrateValue, stream, streamStatus,
                 mountStream, playerVars, lifeVars, engineVars, startReports,
                 stoppedReports, lastIntent, lastLoad>>

\* The item query's getItem request is rejected.
ItemQueryRejected ==
  /\ Mounted /\ api /\ itemStatus = "loading"
  /\ itemStatus' = "error"
  /\ sent' = NoReport
  /\ UNCHANGED <<asideVars, api, mountItem, bitrateValue, stream, streamStatus,
                 mountStream, playerVars, lifeVars, engineVars, startReports,
                 stoppedReports, lastIntent, lastLoad>>

\* getStreamUrl is rejected: the query is in error and keeps the data it had.
StreamQueryRejected ==
  /\ Mounted /\ streamStatus \in {"loading", "refetching"}
  /\ streamStatus' = "error"
  /\ EngineReset
  /\ sent' = NoReport
  /\ UNCHANGED <<asideVars, api, itemStatus, mountItem, bitrateValue, stream,
                 mountStream, playerVars, lifeVars, startReports,
                 stoppedReports, lastIntent, lastLoad>>

\* getStreamUrl answers with a url, a session id and a media source.
StreamQuerySuccess(u) ==
  /\ Mounted /\ streamStatus \in {"loading", "refetching"}
  /\ stream' = [ok |-> TRUE, bitrate |-> bitrateValue, url |-> u]
  /\ streamStatus' = "success"
  /\ EngineReset
  /\ sent' = NoReport
  /\ UNCHANGED <<asideVars, api, itemStatus, mountItem, bitrateValue, mountStream, playerVars, lifeVars, startReports,
                 stoppedReports, lastIntent, lastLoad>>

\* getStreamUrl answers nothing, or without url, session id or media source:
\* the queryFn returns null.
StreamQueryNull ==
  /\ Mounted /\ streamStatus \in {"loading", "refetching"}
  /\ stream' = NoStream
  /\ streamStatus' = "success"
  /\ EngineReset
  /\ sent' = NoReport
  /\ UNCHANGED <<asideVars, api, itemStatus, mountItem, bitrateValue, mountStream, playerVars, lifeVars,
                 startReports, stoppedReports, lastIntent, lastLoad>>

\* A change of bitrateValue that starts the stream query without an item.
SetMaxBitrateAlwaysEnabled(b, c) ==
  /\ Mounted /\ b # bitrateValue
  /\ bitrateValue' = b
  /\ StreamQueryFor(c)
  /\ EngineReset
  /\ sent' = NoReport
  /\ UNCHANGED <<asideVars, api, itemStatus, mountItem, mountStream, playerVars,
                 lifeVars, startReports, stoppedReports, lastIntent, lastLoad>>

\* The bitrateValue parameter changes: the stream query has a new key.
SetMaxBitrate(b, c) ==
  /\ Mounted /\ b # bitrateValue
  /\ bitrateValue' = b
  /\ IF ItemLoaded
     THEN StreamQueryFor(c)
     ELSE stream' = NoStream /\ streamStatus' = "idle"
  /\ EngineReset
  /\ sent' = NoReport
  /\ UNCHANGED <<asideVars, api, itemStatus, mountItem, mountStream, playerVars, lifeVars, startReports,
                 stoppedReports, lastIntent, lastLoad>>

\* ------------------------------------------------------ engine callbacks
\* onLoad that never clears firstTime.current.
OnLoadKeepsFirstTime ==
  /\ VideoAttached /\ ~engineLoaded
  /\ engineLoaded' = TRUE
  /\ lastLoad' = IF lastLoad = "none" THEN "first" ELSE "again"
  /\ play
  /\ UNCHANGED <<asideVars, queryVars, playerVars, lifeVars, stoppedReports>>

\* onLoad: the first load of the session calls play(); a later load only
\* starts the engine (the element has no `paused` prop).
OnLoad ==
  /\ VideoAttached /\ ~engineLoaded
  /\ engineLoaded' = TRUE
  /\ lastLoad' = IF lastLoad = "none" THEN "first" ELSE "again"
  /\ firstTime' = FALSE
  /\ IF firstTime
     THEN play
     ELSE /\ QueueOK(ResumeEvents)
          /\ enginePlaying' = TRUE
          /\ stateEvents' = ResumeEvents
          /\ sent' = NoReport
          /\ UNCHANGED <<startReports, lastIntent>>
  /\ UNCHANGED <<asideVars, queryVars, isPlaybackStopped, isPlaying, isBuffering,
                 isSeeking, progress, lifeVars, stoppedReports>>

\* onProgress({currentTime, playableDuration}).
OnProgress(currentTime, playableDuration) ==
  /\ VideoAttached /\ engineLoaded
  /\ IF isSeeking \/ isPlaybackStopped
     THEN /\ sent' = NoReport
          /\ UNCHANGED <<progress, isBuffering>>
     ELSE /\ progress' = secondsToTicks(currentTime)
          /\ isBuffering' = (playableDuration = 0)
          /\ sent' = IF ~ItemLoaded \/ currentTime = 0
                     THEN NoReport
                     ELSE ProgressReport(secondsToTicks(currentTime), ~isPlaying)
  /\ UNCHANGED <<asideVars, queryVars, firstTime, isPlaybackStopped, isPlaying, isSeeking,
                 lifeVars, engineVars, startReports, stoppedReports,
                 lastIntent, lastLoad>>

\* onPlaybackStateChanged(state): the oldest undelivered event.
OnPlaybackStateChangedWhileSeeking ==
  /\ Mounted /\ stateEvents # <<>>
  /\ isPlaying' = Head(stateEvents)
  /\ stateEvents' = Tail(stateEvents)
  /\ sent' = NoReport
  /\ UNCHANGED <<asideVars, queryVars, firstTime, isPlaybackStopped, isBuffering,
                 isSeeking, progress, lifeVars, engineLoaded,
                 enginePlaying, startReports, stoppedReports, lastIntent,
                 lastLoad>>

OnPlaybackStateChanged ==
  /\ Mounted /\ stateEvents # <<>>
  /\ isPlaying' = IF isSeeking = FALSE THEN Head(stateEvents) ELSE isPlaying
  /\ stateEvents' = Tail(stateEvents)
  /\ sent' = NoReport
  /\ UNCHANGED <<asideVars, queryVars, firstTime, isPlaybackStopped, isBuffering,
                 isSeeking, progress, lifeVars, engineLoaded,
                 enginePlaying, startReports, stoppedReports, lastIntent,
                 lastLoad>>

\* onBuffer(e).
OnBuffer(b) ==
  /\ VideoAttached /\ engineLoaded
  /\ isBuffering' = b
  /\ sent' = NoReport
  /\ UNCHANGED <<asideVars, queryVars, firstTime, isPlaybackStopped, isPlaying, isSeeking,
                 progress, lifeVars, engineVars, startReports,
                 stoppedReports, lastIntent, lastLoad>>

\* ---------------------------------------------------------- the controls
\* togglePlay(ticks) of the current render.
TogglePlay(ticks) ==
  /\ ControlsShown
  /\ IF isPlaying
     THEN /\ QueueOK(PauseEvents)
          /\ enginePlaying' = FALSE
          /\ stateEvents' = PauseEvents
          /\ sent' = ProgressReport(ticks, TRUE)
          /\ lastIntent' = "pause"
     ELSE /\ QueueOK(ResumeEvents)
          /\ enginePlaying' = (VideoAttached \/ enginePlaying)
          /\ stateEvents' = ResumeEvents
          /\ sent' = ProgressReport(ticks, FALSE)
          /\ lastIntent' = "play"
  /\ UNCHANGED <<asideVars, queryVars, playerVars, lifeVars, engineLoaded, startReports,
                 stoppedReports, lastLoad>>

\* The controls call their play prop.
ControlsPlay ==
  /\ ControlsShown
  /\ play
  /\ UNCHANGED <<asideVars, queryVars, playerVars, lifeVars, engineLoaded,
                 stoppedReports, lastLoad>>

\* The controls call their pause prop.
ControlsPause ==
  /\ ControlsShown
  /\ pause
  /\ UNCHANGED <<asideVars, queryVars, playerVars, lifeVars, engineLoaded, startReports,
                 stoppedReports, lastLoad>>

\* seek(seconds): videoRef.current?.seek(seconds), nothing else.
Seek(seconds) ==
  /\ ControlsShown
  /\ sent' = NoReport
  /\ UNCHANGED <<asideVars, queryVars, playerVars, lifeVars, engineVars, startReports,
                 stoppedReports, lastIntent, lastLoad>>

\* The controls own the writes of the isSeeking shared value they are given.
ControlsWriteIsSeeking(b) ==
  /\ ControlsShown /\ b # isSeeking
  /\ isSeeking' = b
  /\ sent' = NoReport
  /\ UNCHANGED <<asideVars, queryVars, firstTime, isPlaybackStopped, isPlaying,
                 isBuffering, progress, lifeVars, engineVars,
                 startReports, stoppedReports, lastIntent, lastLoad>>

\* --------------------------------------------------- the remote control
\* A remote play command: playVideo, which is play.
RemotePlay ==
  /\ Mounted
  /\ play
  /\ UNCHANGED <<asideVars, queryVars, playerVars, lifeVars, engineLoaded,
                 stoppedReports, lastLoad>>

\* A remote pause command: pauseVideo, which is pause.
RemotePause ==
  /\ Mounted
  /\ pause
  /\ UNCHANGED <<asideVars, queryVars, playerVars, lifeVars, engineLoaded, startReports,
                 stoppedReports, lastLoad>>

\* A remote stop command: stopPlayback, which is the current render's stop.
RemoteStop ==
  /\ Mounted
  /\ stop(ItemLoaded, stream)
  /\ UNCHANGED <<asideVars, queryVars, firstTime, isPlaying, isBuffering, isSeeking,
                 progress, lifeVars, engineLoaded,
                 startReports, lastIntent, lastLoad>>

\* ------------------------------------------------------ the focus effect
\* The focus effect runs, after the first render and whenever the screen
\* gains focus again: it calls the first render's play.
Focus ==
  /\ phase = "render" \/ (Mounted /\ ~focused)
  /\ phase' = "mounted"
  /\ focused' = TRUE
  /\ play
  /\ UNCHANGED <<asideVars, queryVars, playerVars, engineLoaded, stoppedReports,
                 lastLoad>>

\* The screen loses focus: the effect's cleanup calls the first render's stop.
Blur ==
  /\ Mounted /\ focused
  /\ focused' = FALSE
  /\ stop(mountItem, mountStream)
  /\ UNCHANGED <<asideVars, queryVars, firstTime, isPlaying, isBuffering, isSeeking,
                 progress, phase, engineLoaded, startReports, lastIntent,
                 lastLoad>>

\* The screen unmounts: if it still has focus the same cleanup runs; the
\* <Video> element goes away.
Unmount ==
  /\ Mounted
  /\ phase' = "unmounted"
  /\ focused' = FALSE
  /\ IF focused
     THEN /\ isPlaybackStopped' = TRUE
          /\ sent' = reportPlaybackStopped(mountItem, mountStream)
          /\ stoppedReports' = IF mountItem THEN Counted(stoppedReports) ELSE stoppedReports
     ELSE /\ sent' = NoReport
          /\ UNCHANGED <<isPlaybackStopped, stoppedReports>>
  /\ EngineReset
  /\ UNCHANGED <<asideVars, queryVars, firstTime, isPlaying, isBuffering, isSeeking,
                 progress, startReports, lastIntent, lastLoad>>

\* ------------------------------------------------------------------ Next
Next ==
  \/ \E c \in Cached(bitrateValue) : ItemQuerySuccess(c)
  \/ ItemQueryError
  \/ ItemQueryNull
  \/ ItemQueryRejected
  \/ \E u \in Urls : StreamQuerySuccess(u)
  \/ StreamQueryNull
  \/ StreamQueryRejected
  \/ \E b \in Bitrates : \E c \in Cached(b) : SetMaxBitrate(b, c)
  \/ OnLoad
  \/ \E t \in 0..MaxTime, d \in {0, MaxTime} : OnProgress(t, d)
  \/ OnPlaybackStateChanged
  \/ \E b \in BOOLEAN : OnBuffer(b)
  \/ TogglePlay(progress)
  \/ ControlsPlay
  \/ ControlsPause
  \/ \E s \in 0..MaxTime : Seek(s)
  \/ \E b \in BOOLEAN : ControlsWriteIsSeeking(b)
  \/ RemotePlay
  \/ RemotePause
  \/ RemoteStop
  \/ Focus
  \/ Blur
  \/ Unmount

Spec == Init /\ [][Next]_vars

\* ------------------------------------------------- the reports' settlement
\* revalidateProgressCache(): the hook refreshes the lists of items in
\* progress; the session's own queries are left alone.
revalidateProgressCache == UNCHANGED queryVars

\* A rejected report that stops the playback.
ReportRejectedStops ==
  /\ sent.kind # "none"
  /\ settled' = "rejected"
  /\ isPlaybackStopped' = TRUE
  /\ enginePlaying' = FALSE
  /\ sent' = NoReport
  /\ UNCHANGED <<trackVars, downloadVars, resolveVars, sourceVars,
                 selectedAudioTrack, queryVars,
                 firstTime, isPlaying, isBuffering, isSeeking, progress,
                 lifeVars, engineLoaded, stateEvents, startReports,
                 stoppedReports, histVars>>

\* The service rejects the report of the last step: the awaiting callback
\* ends with the rejection, and nothing follows the await.
ReportRejected ==
  /\ sent.kind # "none"
  /\ settled' = "rejected"
  /\ sent' = NoReport
  /\ UNCHANGED <<trackVars, downloadVars, resolveVars, sourceVars,
                 selectedAudioTrack, queryVars,
                 playerVars, lifeVars, engineVars, startReports,
                 stoppedReports, histVars>>

\* The service accepts the report of the last step: a start or progress
\* report has nothing after its await, a stopped report revalidates the
\* progress cache.
ReportAccepted ==
  /\ sent.kind # "none"
  /\ settled' = "accepted"
  /\ sent' = NoReport
  /\ IF sent.kind = "stopped" THEN revalidateProgressCache
                              ELSE UNCHANGED queryVars
  /\ UNCHANGED <<trackVars, downloadVars, resolveVars, sourceVars,
                 selectedAudioTrack,
                 playerVars, lifeVars, engineVars, startReports,
                 stoppedReports, histVars>>

ReportNext ==
  \/ Next
  \/ ReportRejected
  \/ ReportAccepted

ReportSpec == Init /\ [][ReportNext]_vars

TypeOK ==
  /\ api \in BOOLEAN /\ mountItem \in BOOLEAN
  /\ phase \in {"render", "mounted", "unmounted"}
  /\ itemStatus \in {"loading", "success", "null", "error"}
  /\ streamStatus \in {"idle", "loading", "refetching", "success", "error"}
  /\ bitrateValue \in Bitrates
  /\ progress \in {secondsToTicks(t) : t \in 0..MaxTime}
  /\ startReports \in 0..2 /\ stoppedReports \in 0..2
  /\ (stream.ok => stream.bitrate = bitrateValue)
  /\ Len(stateEvents) <= MaxEvents
  /\ lastIntent \in {"none", "play", "pause"}
  /\ lastLoad \in {"none", "first", "again"}
  /\ (firstTime <=> lastLoad = "none")
  /\ (enginePlaying => VideoAttached)
  /\ (engineLoaded => VideoAttached)

\* ------------------------------------------------------ the track catalog
\* The kinds of stream of a media source: text subtitles, image subtitles,
\* audio.
StreamKinds ==
  { [Type |-> "Subtitle", IsTextSubtitleStream |-> TRUE],
    [Type |-> "Subtitle", IsTextSubtitleStream |-> FALSE],
    [Type |-> "Audio", IsTextSubtitleStream |-> FALSE] }

\* The stream lists of a media source: the server numbers the streams in
\* order, from 0.
MediaSources ==
  UNION { { [i \in 1..n |-> [Type |-> k[i].Type,
                             IsTextSubtitleStream |-> k[i].IsTextSubtitleStream,
                             DisplayTitle |-> t[i],
                             Index |-> i - 1]] :
              k \in [1..n -> StreamKinds], t \in [1..n -> Titles] } :
          n \in 0..MaxStreams }

\* The indexes the controls offer for a subtitle track.
TrackIndexes == {0, 1}

\* Array.prototype.find on titles: the position of the first stream of subs
\* with the title, 0 if there is none.
findTitle(subs, title) ==
  IF \E i \in 1..Len(subs) : subs[i].DisplayTitle = title
  THEN CHOOSE i \in 1..Len(subs) :
         /\ subs[i].DisplayTitle = title
         /\ \A j \in 1..(i - 1) : subs[j].DisplayTitle # title
  ELSE 0

\* Array.prototype.find on indexes: the position of the first stream of subs
\* with the server index, 0 if there is none.
findIndex(subs, index) ==
  IF \E i \in 1..Len(subs) : subs[i].Index = index
  THEN CHOOSE i \in 1..Len(subs) :
         /\ subs[i].Index = index
         /\ \A j \in 1..(i - 1) : subs[j].Index # index
  ELSE 0

\* Array.prototype.indexOf: the 0-based position of the first element that is
\* x, -1 if there is none.
indexOf(seq, x) ==
  IF \E i \in 1..Len(seq) : seq[i] = x
  THEN (CHOOSE i \in 1..Len(seq) :
          /\ seq[i] = x
          /\ \A j \in 1..(i - 1) : seq[j] # x) - 1
  ELSE -1

\* Array.from(new Set(titles)): a Set keeps each value once, in the order of
\* first insertion.
RECURSIVE SetOf(_, _)
SetOf(titles, seen) ==
  IF titles = <<>> THEN seen
  ELSE SetOf(Tail(titles),
             IF \E i \in 1..Len(seen) : seen[i] = Head(titles)
             THEN seen ELSE Append(seen, Head(titles)))

\* textSubs: the streams of type Subtitle that are text.
IsTextSub(sub) == sub.Type = "Subtitle" /\ sub.IsTextSubtitleStream

textSubs(streams) == SelectSeq(streams, IsTextSub)

\* uniqueTextSubs keeping, for each title, the last stream that has it.
uniqueTextSubsKeepsLast(streams) ==
  LET subs == textSubs(streams)
      titles == SetOf([i \in 1..Len(subs) |-> subs[i].DisplayTitle], <<>>)
  IN [i \in 1..Len(titles) |->
        subs[CHOOSE j \in 1..Len(subs) :
               /\ subs[j].DisplayTitle = titles[i]
               /\ \A k \in (j + 1)..Len(subs) : subs[k].DisplayTitle # titles[i]]]

\* uniqueTextSubs: for each title of the Set, textSubs.find of that title.
uniqueTextSubs(streams) ==
  LET subs == textSubs(streams)
      titles == SetOf([i \in 1..Len(subs) |-> subs[i].DisplayTitle], <<>>)
  IN [i \in 1..Len(titles) |-> subs[findTitle(subs, titles[i])]]

\* The effect on embededTextTracks, run in a render whose stream has the
\* given streams: it sets the initial selection if the requested stream is a
\* text subtitle and nothing is selected yet.
initialSubtitleEffectOverrides(streams) ==
  LET subs == textSubs(streams)
      chosen == findIndex(subs, subtitleIndex)
  IN IF chosen # 0
     THEN /\ selectedTextTrack' =
               [set |-> TRUE,
                value |-> indexOf(uniqueTextSubs(streams), subs[chosen])]
          /\ applied' = Counted(applied)
     ELSE UNCHANGED <<selectedTextTrack, applied>>

initialSubtitleEffect(streams) ==
  LET subs == textSubs(streams)
      chosen == findIndex(subs, subtitleIndex)
  IN IF chosen # 0 /\ ~selectedTextTrack.set
     THEN /\ selectedTextTrack' =
               [set |-> TRUE,
                value |-> indexOf(uniqueTextSubs(streams), subs[chosen])]
          /\ applied' = Counted(applied)
     ELSE UNCHANGED <<selectedTextTrack, applied>>

\* The screen is launched with a subtitleIndex parameter or without; the
\* stream, in the query cache or once resolved, has one of the media sources.
TrackInit ==
  /\ SessionInit /\ api /\ mountItem
  /\ DownloadIdle /\ RestIdle
  /\ mediaStreams \in MediaSources
  /\ subtitleIndex \in {NoIndex} \cup {i - 1 : i \in 1..MaxStreams}
  /\ selectedTextTrack = NoTrack
  /\ discoveries = 0
  /\ applied = 0

\* The effects of the first render run; the effect on embededTextTracks is
\* one of them, and it finds the stream's media source if the stream was in
\* the query cache.
TrackMount ==
  /\ phase = "render"
  /\ phase' = "mounted"
  /\ initialSubtitleEffect(IF mountStream.ok THEN mediaStreams ELSE <<>>)
  /\ UNCHANGED <<queryVars, playerVars, focused, engineVars, reportVars,
                 histVars, downloadVars, restVars, mediaStreams,
                 subtitleIndex,
                 discoveries>>

\* onTextTracks(data): embededTextTracks is set, and the effect runs again.
OnTextTracks ==
  /\ VideoAttached /\ discoveries < MaxDiscoveries
  /\ discoveries' = discoveries + 1
  /\ initialSubtitleEffect(mediaStreams)
  /\ UNCHANGED <<besideTracks, mediaStreams, subtitleIndex>>

\* setSubtitleTrack(i) of the controls.
SetSubtitleTrackRenegotiates(i) ==
  /\ ControlsShown
  /\ selectedTextTrack' = [set |-> TRUE, value |-> i]
  /\ streamStatus' = "loading"
  /\ sent' = NoReport
  /\ UNCHANGED <<api, itemStatus, mountItem, bitrateValue, stream,
                 mountStream, playerVars, lifeVars, engineVars, startReports,
                 stoppedReports, histVars, downloadVars, restVars,
                 mediaStreams, subtitleIndex, discoveries, applied>>

SetSubtitleTrack(i) ==
  /\ ControlsShown
  /\ selectedTextTrack' = [set |-> TRUE, value |-> i]
  /\ sent' = NoReport
  /\ UNCHANGED <<queryVars, playerVars, lifeVars, engineVars, startReports,
                 stoppedReports, histVars, downloadVars, restVars,
                 mediaStreams, subtitleIndex, discoveries, applied>>

\* setAudioTrack(i) of the controls.
SetAudioTrack(i) ==
  /\ ControlsShown
  /\ selectedAudioTrack' = [set |-> TRUE, value |-> i]
  /\ sent' = NoReport
  /\ UNCHANGED <<queryVars, playerVars, lifeVars, engineVars, startReports,
                 stoppedReports, histVars, trackVars, downloadVars,
                 resolveVars, sourceVars, settled>>

TrackNext ==
  \/ TrackMount
  \/ \E u \in Urls : StreamQuerySuccess(u)
  \/ OnTextTracks
  \/ \E i \in TrackIndexes : SetSubtitleTrack(i)

\* ------------------------------------------- track selection while playing
\* The session of an item found in the query cache, with the engine's load,
\* state and progress callbacks and the controls' two track selectors.
SelectInit == Init /\ api /\ mountItem

SelectNext ==
  \/ Focus
  \/ \E u \in Urls : StreamQuerySuccess(u)
  \/ OnLoad
  \/ \E t \in 0..MaxTime, d \in {0, MaxTime} : OnProgress(t, d)
  \/ OnPlaybackStateChanged
  \/ \E i \in TrackIndexes : SetSubtitleTrack(i)
  \/ \E i \in TrackIndexes : SetAudioTrack(i)

SelectSpec == SelectInit /\ [][SelectNext]_vars

TrackSpec == TrackInit /\ [][TrackNext]_vars

TrackTypeOK ==
  /\ mediaStreams \in MediaSources
  /\ subtitleIndex \in {NoIndex} \cup {i - 1 : i \in 1..MaxStreams}
  /\ selectedTextTrack.set \in BOOLEAN
  /\ discoveries \in 0..MaxDiscoveries
  /\ applied \in 0..2

\* ------------------------------------------------------- the downloads
\* What the playbackInfo query of a DownloadItem can settle to: no data (the
\* query failed), or data whose first media source has SupportsDirectPlay
\* true, false, or absent.
PlaybackInfos == {"none", "direct", "nodirect", "unknown"}

\* DownloadItem's render that never looks at the running process.
ShownIgnoresProcess(i) ==
  IF playbackInfo[i] = "loading" THEN "loader"
  ELSE IF playbackInfo[i] = "nodirect" THEN "unavailable"
  ELSE IF i \in downloaded THEN "downloaded"
  ELSE "download"

\* What the DownloadItem of item i renders: the loader, the greyed icon of an
\* item that cannot be played directly, the greyed button while another item
\* is in transfer, the progress circle of its own transfer, the play button
\* of a downloaded item, or the download button.
Shown(i) ==
  IF playbackInfo[i] = "loading" THEN "loader"
  ELSE IF playbackInfo[i] = "nodirect" THEN "unavailable"
  ELSE IF process.running /\ process.item # i THEN "busy"
  ELSE IF process.running THEN "progress"
  ELSE IF i \in downloaded THEN "downloaded"
  ELSE "download"

\* downloadMedia(item) of useDownloadMedia: a transfer starts and the atom
\* holds it.
downloadMedia(i) ==
  /\ activeTransfers < MaxTransfers
  /\ process' = [running |-> TRUE, item |-> i, progress |-> 0]
  /\ activeTransfers' = activeTransfers + 1

\* cancelDownload() of useDownloadMedia: the transfer ends and the atom is
\* cleared.
cancelDownload ==
  /\ process' = NoProcess
  /\ activeTransfers' = activeTransfers - 1

\* downloadFile() of the DownloadItem of item i.
downloadFile(i) ==
  IF playbackInfo[i] = "none"
  THEN /\ pressOutcome' = "ignored"
       /\ UNCHANGED <<process, activeTransfers>>
  ELSE IF playbackInfo[i] = "direct" /\ canDownload[i]
  THEN /\ downloadMedia(i)
       /\ pressOutcome' = "started"
  ELSE /\ pressOutcome' = "rejected"
       /\ UNCHANGED <<process, activeTransfers>>

\* The DownloadItems are on screen, their queries loading, nothing in
\* transfer.
DownloadInit ==
  /\ SessionInit /\ api /\ ~mountItem
  /\ TrackIdle /\ RestIdle
  /\ process = NoProcess
  /\ playbackInfo = [i \in Items |-> "loading"]
  /\ canDownload \in [Items -> BOOLEAN]
  /\ downloaded = {}
  /\ activeTransfers = 0
  /\ pressOutcome = "none"

\* The playbackInfo query of item i settles.
PlaybackInfoSettled(i, info) ==
  /\ playbackInfo[i] = "loading"
  /\ playbackInfo' = [playbackInfo EXCEPT ![i] = info]
  /\ UNCHANGED <<besideDownloads, process, canDownload, downloaded,
                 activeTransfers, pressOutcome>>

\* A press of the download button of item i.
PressDownload(i) ==
  /\ Shown(i) = "download"
  /\ downloadFile(i)
  /\ UNCHANGED <<besideDownloads, playbackInfo, canDownload, downloaded>>

\* A press of the progress circle of item i.
PressCancel(i) ==
  /\ Shown(i) = "progress"
  /\ cancelDownload
  /\ pressOutcome' = "cancelled"
  /\ UNCHANGED <<besideDownloads, playbackInfo, canDownload, downloaded>>

\* A press of the greyed button of item i while another item is in transfer:
\* onPress={() => {}}.
PressBusy(i) ==
  /\ Shown(i) = "busy"
  /\ pressOutcome' = "nothing"
  /\ UNCHANGED <<besideDownloads, process, playbackInfo, canDownload,
                 downloaded, activeTransfers>>

\* The transfer in flight reports progress.
TransferProgress ==
  /\ process.running /\ process.progress < MaxProgress
  /\ process' = [process EXCEPT !.progress = @ + 1]
  /\ UNCHANGED <<besideDownloads, playbackInfo, canDownload, downloaded,
                 activeTransfers, pressOutcome>>

\* The transfer in flight ends: the item is stored and the atom cleared.
TransferComplete ==
  /\ process.running
  /\ downloaded' = downloaded \cup {process.item}
  /\ process' = NoProcess
  /\ activeTransfers' = activeTransfers - 1
  /\ UNCHANGED <<besideDownloads, playbackInfo, canDownload, pressOutcome>>

DownloadNext ==
  \/ \E i \in Items, info \in PlaybackInfos : PlaybackInfoSettled(i, info)
  \/ \E i \in Items : PressDownload(i)
  \/ \E i \in Items : PressCancel(i)
  \/ \E i \in Items : PressBusy(i)
  \/ TransferProgress
  \/ TransferComplete

DownloadSpec == DownloadInit /\ [][DownloadNext]_vars

DownloadTypeOK ==
  /\ process.running \in BOOLEAN
  /\ process.progress \in 0..MaxProgress
  /\ playbackInfo \in [Items -> PlaybackInfos \cup {"loading"}]
  /\ canDownload \in [Items -> BOOLEAN]
  /\ downloaded \subseteq Items
  /\ activeTransfers \in 0..MaxTransfers
  /\ pressOutcome \in {"none", "ignored", "started", "rejected", "cancelled",
                       "nothing"}

\* ------------------------------------------------- the stream's resolution
\* The stream query's key: ["stream-url", itemId, audioIndex, subtitleIndex,
\* bitrateValue, mediaSourceId], for the one itemId of the session.
StreamKey == [audioIndex |-> audioIndex, subtitleIndex |-> subtitleIndex,
              bitrateValue |-> bitrateValue, mediaSourceId |-> mediaSourceId]

AudioIndexes == {NoIndex} \cup TrackIndexes
SubtitleIndexes == {NoIndex} \cup TrackIndexes
MediaSourceIds == {"", "alternate"}

\* The stream query's queryFn is run for the key of the new state: the
\* negotiation request goes out, and c is what the cache holds for the key.
startResolve(c) ==
  /\ StreamQueryFor(c)
  /\ fetchKey' = StreamKey'
  /\ resolutions' = resolutions + 1

ResolveInit ==
  /\ SessionInit /\ api
  /\ TrackIdle /\ DownloadIdle /\ SourceIdle /\ settled = "none"
  /\ selectedAudioTrack = NoTrack
  /\ audioIndex = NoIndex
  /\ mediaSourceId = ""
  /\ itemSnapshots = 0
  /\ resolutions = (IF mountItem THEN 1 ELSE 0)
  /\ fetchKey = (IF mountItem THEN StreamKey ELSE NoKey)

\* The first render is committed.
ResolveMount ==
  /\ phase = "render"
  /\ phase' = "mounted"
  /\ UNCHANGED <<queryVars, playerVars, focused, engineVars, reportVars,
                 histVars, trackVars, downloadVars, restVars>>

\* The item query succeeds; `enabled: !!item` starts the stream query.
ResolveItemLoaded(c) ==
  /\ Mounted /\ itemStatus = "loading"
  /\ itemStatus' = "success"
  /\ UNCHANGED <<api, mountItem, bitrateValue, mountStream, playerVars,
                 lifeVars, engineVars, reportVars, histVars, trackVars,
                 downloadVars, audioIndex, mediaSourceId, itemSnapshots,
                 sourceVars, settled,
                 selectedAudioTrack>>
  /\ startResolve(c)

\* A refetch of the item that also runs the stream query again.
ItemRefreshedResolves ==
  /\ Mounted /\ itemStatus = "success" /\ itemSnapshots < MaxSnapshots
  /\ resolutions < MaxResolutions
  /\ itemSnapshots' = itemSnapshots + 1
  /\ UNCHANGED <<api, itemStatus, mountItem, bitrateValue, mountStream,
                 playerVars, lifeVars, engineVars, reportVars, histVars,
                 trackVars, downloadVars, audioIndex, mediaSourceId,
                 sourceVars, settled,
                 selectedAudioTrack>>
  /\ startResolve(stream)

\* A refetch of the item query answers: `item` is a new snapshot of the same
\* item.  The stream query's key does not hold the item.
ItemRefreshed ==
  /\ Mounted /\ itemStatus = "success" /\ itemSnapshots < MaxSnapshots
  /\ itemSnapshots' = itemSnapshots + 1
  /\ UNCHANGED <<sessionVars, trackVars, downloadVars, audioIndex,
                 mediaSourceId, fetchKey, resolutions, sourceVars, settled,
                 selectedAudioTrack>>

\* The route's parameters change: audioIndex, subtitleIndex, bitrateValue and
\* mediaSourceId take the values a, i, b and id, at least one of them new.
\* With an item the stream query has a new key and runs.
SetParams(a, i, b, id, c) ==
  /\ Mounted /\ resolutions < MaxResolutions
  /\ <<a, i, b, id>> # <<audioIndex, subtitleIndex, bitrateValue, mediaSourceId>>
  /\ audioIndex' = a
  /\ subtitleIndex' = i
  /\ bitrateValue' = b
  /\ mediaSourceId' = id
  /\ IF ItemLoaded THEN startResolve(c)
                   ELSE UNCHANGED <<stream, streamStatus, fetchKey, resolutions>>
  /\ UNCHANGED <<api, itemStatus, mountItem, mountStream, playerVars,
                 lifeVars, engineVars, reportVars, histVars, mediaStreams,
                 selectedTextTrack, discoveries, applied, downloadVars,
                 itemSnapshots, sourceVars, settled,
                 selectedAudioTrack>>

\* getStreamUrl answers: c is the descriptor, or NoStream for an answer
\* without url, session id or media source.
ResolveSettled(c) ==
  /\ Mounted /\ streamStatus \in {"loading", "refetching"}
  /\ stream' = c
  /\ streamStatus' = "success"
  /\ UNCHANGED <<api, itemStatus, mountItem, bitrateValue, mountStream,
                 playerVars, lifeVars, engineVars, reportVars, histVars,
                 trackVars, downloadVars, restVars>>

\* getStreamUrl is rejected.
ResolveRejected ==
  /\ Mounted /\ streamStatus \in {"loading", "refetching"}
  /\ streamStatus' = "error"
  /\ UNCHANGED <<api, itemStatus, mountItem, bitrateValue, stream,
                 mountStream, playerVars, lifeVars, engineVars, reportVars,
                 histVars, trackVars, downloadVars, restVars>>

ResolveNext ==
  \/ ResolveMount
  \/ \E c \in Cached(bitrateValue) : ResolveItemLoaded(c)
  \/ ItemRefreshed
  \/ \E a \in AudioIndexes, i \in SubtitleIndexes, b \in Bitrates,
        id \in MediaSourceIds :
       \E c \in Cached(b) : SetParams(a, i, b, id, c)
  \/ \E c \in Cached(bitrateValue) : ResolveSettled(c)
  \/ ResolveRejected

ResolveSpec == ResolveInit /\ [][ResolveNext]_vars

ResolveTypeOK ==
  /\ audioIndex \in AudioIndexes
  /\ subtitleIndex \in SubtitleIndexes
  /\ mediaSourceId \in MediaSourceIds
  /\ resolutions \in 0..MaxResolutions
  /\ itemSnapshots \in 0..MaxSnapshots
  /\ stream.ok => stream.bitrate = bitrateValue


\* ------------------------------------------------------ the video source
\* The playback positions an item can carry: around the halves and wholes of
\* a millisecond, and two minutes into the item.
PositionSamples == {0, 1, 4999, 5000, 9999, 10000, 15000, 25000,
                    1200000000, 1200004999, 1200005000}

\* n / d cut off to a whole number.
MathFloor(n, d) == n \div d

\* Math.round(n / d) for n >= 0: the nearest whole number, halves upwards.
MathRound(n, d) == (n \div d) + (IF 2 * (n % d) >= d THEN 1 ELSE 0)

\* The url handed to useVideoSource: stream?.url.
urlOf(s) == IF s.ok THEN s.url ELSE ""

\* useVideoSource(item, api, poster, url): null without item, api or url,
\* otherwise a source whose startPosition is 0 for an absent or zero
\* position.
useVideoSource(hasItem, hasApi, url, ticks) ==
  IF ~hasItem \/ ~hasApi \/ url = "" THEN NoSource
  ELSE IF ticks = NoTicks \/ ticks = 0 THEN 0
  ELSE MathRound(ticks, TicksPerMillisecond)

SourceInit ==
  /\ SessionInit /\ api
  /\ TrackIdle /\ DownloadIdle /\ ResolveIdle /\ settled = "none"
  /\ selectedAudioTrack = NoTrack
  /\ playbackPositionTicks \in
       (IF mountItem THEN PositionSamples \cup {NoTicks} ELSE {NoTicks})
  /\ startPosition =
       useVideoSource(mountItem, api, urlOf(stream), playbackPositionTicks)

\* The first render is committed.
SourceMount ==
  /\ phase = "render"
  /\ phase' = "mounted"
  /\ UNCHANGED <<queryVars, playerVars, focused, engineVars, reportVars,
                 histVars, trackVars, downloadVars, restVars>>

\* The item query succeeds with an item at position t (NoTicks: none); the
\* stream query starts, and the memo of useVideoSource is computed again.
SourceItemLoaded(t, c) ==
  /\ Mounted /\ itemStatus = "loading"
  /\ itemStatus' = "success"
  /\ playbackPositionTicks' = t
  /\ StreamQueryFor(c)
  /\ startPosition' = useVideoSource(TRUE, api, urlOf(c), t)
  /\ UNCHANGED <<api, mountItem, bitrateValue, mountStream, playerVars,
                 lifeVars, engineVars, reportVars, histVars, trackVars,
                 downloadVars, resolveVars, settled,
                 selectedAudioTrack>>

\* A refetch of the item answers with position t: `item` changes, and the
\* memo is computed again.
SourceItemRefreshed(t) ==
  /\ Mounted /\ itemStatus = "success"
  /\ playbackPositionTicks' = t
  /\ startPosition' = useVideoSource(TRUE, api, urlOf(stream), t)
  /\ UNCHANGED <<sessionVars, trackVars, downloadVars, resolveVars, settled,
                 selectedAudioTrack>>

\* The stream query answers with c: `url` changes, and the memo is computed
\* again.
SourceStreamSettled(c) ==
  /\ Mounted /\ streamStatus \in {"loading", "refetching"}
  /\ stream' = c
  /\ streamStatus' = "success"
  /\ startPosition' =
       useVideoSource(ItemLoaded, api, urlOf(c), playbackPositionTicks)
  /\ UNCHANGED <<api, itemStatus, mountItem, bitrateValue, mountStream,
                 playerVars, lifeVars, engineVars, reportVars, histVars,
                 trackVars, downloadVars, resolveVars,
                 playbackPositionTicks, settled,
                 selectedAudioTrack>>

SourceNext ==
  \/ SourceMount
  \/ \E t \in PositionSamples \cup {NoTicks}, c \in Cached(bitrateValue) :
       SourceItemLoaded(t, c)
  \/ \E t \in PositionSamples \cup {NoTicks} : SourceItemRefreshed(t)
  \/ \E c \in Cached(bitrateValue) : SourceStreamSettled(c)

SourceSpec == SourceInit /\ [][SourceNext]_vars

SourceTypeOK ==
  /\ playbackPositionTicks \in PositionSamples \cup {NoTicks}
  /\ startPosition \in {NoSource} \cup 0..(1200005000 \div TicksPerMillisecond + 1)
  /\ (startPosition # NoSource) <=> (ItemLoaded /\ stream.ok)


\* ------------------------------------------------------ kinds of steps
\* A step that calls play(): the focus effect, the first onLoad, a remote
\* play command, the controls' play.
PlayCall == Focus \/ (OnLoad /\ firstTime) \/ RemotePlay \/ ControlsPlay

\* A step that pauses on request: a remote pause command, the controls'
\* pause, the controls' toggle while playing.
PauseCall == RemotePause \/ ControlsPause \/ (TogglePlay(progress) /\ isPlaying)

\* A step of session teardown: the cleanup of the focus effect, on losing
\* focus or on unmounting with focus.
Teardown == Blur \/ (Unmount /\ focused)

\* An engine progress callback with the given position.
ProgressSample(t) == \E d \in {0, MaxTime} : OnProgress(t, d)

\* The session cannot play: there is no client, the item is absent or its
\* lookup failed, or the negotiation was rejected or came back incomplete.
SessionFailed ==
  \/ ~api
  \/ itemStatus \in {"null", "error"}
  \/ streamStatus = "error"
  \/ streamStatus = "success" /\ ~stream.ok

\* The screen shows an error in place of the playback surface: the error
\* text, or the "No video source..." text.
ErrorShown == Mounted /\ ~IsLoading /\ (IsError \/ ~VideoSource)

\* ---------------------------------------------------------------- claims

\* C1: the play-state service is never sent more than one "start" report,
\* however many times play() is called, and it has been sent one by the time
\* the engine has loaded the stream and play() has run for it.
C1_ExactlyOneStart ==
  /\ startReports <= 1
  /\ (lastLoad # "none" => startReports = 1)

\* C2: the play-state service is never sent more than one "stopped" report,
\* by whatever triggers and however often stop() is called, and it has been
\* sent one once stop() has been called in a session whose item is loaded.
C2_ExactlyOneStopped ==
  /\ stoppedReports <= 1
  /\ ((isPlaybackStopped /\ ItemLoaded) => stoppedReports = 1)

\* C3: while isSeeking is true no step sends a progress report, other than
\* the progress callback that ends the seek; seek() sets isSeeking; and the
\* progress callback that finds isSeeking set clears it and sends a report.
C3_SeekSuppressesReports ==
  [][ /\ ((isSeeking /\ ~(\E t \in 1..MaxTime : ProgressSample(t))) => sent'.kind # "progress")
      /\ ((\E s \in 0..MaxTime : Seek(s)) => isSeeking')
      /\ ((isSeeking /\ (\E t \in 1..MaxTime : ProgressSample(t)))
            => (~isSeeking' /\ sent'.kind = "progress")) ]_vars

\* C4: a progress sample with currentTime = 0 that arrives when the recorded
\* position is past 0 sends no progress report and leaves the recorded
\* position as it was.
C4_ZeroSampleDropped ==
  [][ (progress > 0 /\ ProgressSample(0))
        => (progress' = progress /\ sent'.kind # "progress") ]_vars

\* C5: while the engine has the stream loaded and the session is not
\* stopped, isPlaying is the intent of the most recent play() or pause():
\* true after play(), false after pause().
C5_IsPlayingReflectsIntent ==
  (engineLoaded /\ ~isPlaybackStopped /\ lastIntent # "none")
    => (isPlaying = (lastIntent = "play"))

\* C6: in a stopped session a call of play() neither resumes the engine nor
\* sends a "start" report.
C6_PlayAfterStopIsNoOp ==
  [][ (isPlaybackStopped /\ PlayCall)
        => (enginePlaying' = enginePlaying /\ stateEvents' = stateEvents
            /\ sent'.kind # "start") ]_vars

\* C7: teardown of a session whose item is loaded leaves the engine paused
\* and sends the "stopped" report with the last recorded position.
C7_TeardownReportsStopped ==
  [][ (Teardown /\ ItemLoaded)
        => (~enginePlaying' /\ sent'.kind = "stopped"
            /\ sent'.positionTicks = progress) ]_vars

\* C8: the stream descriptor is always the one resolved for the current
\* bitrate; a bitrate change leaves no engine loaded on the previous one; and
\* an engine load that is not the session's first sends no "start" report.
C8_BitrateChangeNoSecondStart ==
  [][ /\ (stream'.ok => stream'.bitrate = bitrateValue')
      /\ ((\E b \in Bitrates : \E c \in Cached(b) : SetMaxBitrate(b, c)) => ~engineLoaded')
      /\ ((OnLoad /\ lastLoad # "none")
            => (startReports' = startReports /\ sent'.kind # "start")) ]_vars

\* C8 witness: after a bitrate change the engine has loaded the stream
\* resolved for the new bitrate, this was not the session's first load, the
\* item was known to play() all along, and the load sent nothing.
C8_ReloadedAfterBitrateChange ==
  /\ engineLoaded /\ lastLoad = "again" /\ bitrateValue # LaunchBitrate
  /\ stream.ok /\ stream.bitrate = bitrateValue
  /\ mountItem /\ startReports > 0 /\ sent.kind = "none"

\* C9: once isPlaybackStopped is true, every step leaves it true.
C9_StoppedMonotonic == [][ isPlaybackStopped => isPlaybackStopped' ]_vars

\* C9 witness: the session is stopped, and since then play() has resumed the
\* engine and sent a report.
C9_PlayedAfterStop ==
  isPlaybackStopped /\ enginePlaying /\ sent.kind = "start" /\ stoppedReports > 0

\* C10: with the stream loaded by the engine, every way of pausing (remote
\* pause command, the controls' pause, the controls' toggle) leaves the engine
\* paused, sets isPlaying to false and sends a progress report with
\* isPaused = true.
C10_PauseReportsPaused ==
  [][ (PauseCall /\ engineLoaded)
        => (~enginePlaying' /\ ~isPlaying'
            /\ sent'.kind = "progress" /\ sent'.isPaused) ]_vars

\* C11: the subtitle catalog of a media source holds only text subtitle
\* streams; it holds, for each display title that a text subtitle stream has,
\* exactly the first such stream in source order; and it lists them in source
\* order.  Titles English, English, Director's Commentary give the first
\* English and Director's Commentary.
C11_CatalogDeduplicated ==
  LET catalog == uniqueTextSubs(mediaStreams)
      IsSource(sub) == \E i \in 1..Len(mediaStreams) : mediaStreams[i] = sub
  IN /\ \A i \in 1..Len(catalog) : IsSource(catalog[i]) /\ IsTextSub(catalog[i])
     /\ \A i \in 1..Len(mediaStreams) :
          IsTextSub(mediaStreams[i]) =>
            \E k \in 1..Len(catalog) :
              /\ catalog[k].DisplayTitle = mediaStreams[i].DisplayTitle
              /\ catalog[k].Index <= mediaStreams[i].Index
     /\ \A i, k \in 1..Len(catalog) :
          i < k => /\ catalog[i].DisplayTitle # catalog[k].DisplayTitle
                   /\ catalog[i].Index < catalog[k].Index
     /\ ( /\ Len(mediaStreams) = 3
          /\ \A i \in 1..3 : IsTextSub(mediaStreams[i])
          /\ [i \in 1..3 |-> mediaStreams[i].DisplayTitle]
               = <<"English", "English", "Director's Commentary">> )
        => catalog = <<mediaStreams[1], mediaStreams[3]>>

\* C11 witness: the effect has read the catalog of a source whose titles are
\* English, English, Director's Commentary, and selected the third stream.
C11_CommentarySelected ==
  /\ Len(mediaStreams) = 3
  /\ \A i \in 1..3 : IsTextSub(mediaStreams[i])
  /\ [i \in 1..3 |-> mediaStreams[i].DisplayTitle]
       = <<"English", "English", "Director's Commentary">>
  /\ subtitleIndex = 2
  /\ applied = 1 /\ selectedTextTrack = [set |-> TRUE, value |-> 1]

\* C12: a step in which the effect sets the initial selection sets it to the
\* position, in the deduplicated catalog, of the entry for the requested text
\* subtitle stream (the entry with its display title), and the effect sets
\* the initial selection at most once.
C12_InitialSelectionOnce ==
  [][ (applied' # applied) =>
        LET subs == textSubs(mediaStreams)
            catalog == uniqueTextSubs(mediaStreams)
            requested == subs[findIndex(subs, subtitleIndex)]
        IN /\ applied' = 1
           /\ selectedTextTrack'.value >= 0
           /\ selectedTextTrack'.value < Len(catalog)
           /\ catalog[selectedTextTrack'.value + 1].DisplayTitle
                = requested.DisplayTitle ]_vars

\* C13: at most one transfer is in flight; while one is, the DownloadItem of
\* its item shows that transfer's progress, and no DownloadItem offers the
\* download button.
C13_OneActiveTransfer ==
  /\ activeTransfers <= 1
  /\ process.running =>
       /\ activeTransfers = 1
       /\ Shown(process.item) = "progress"
       /\ \A i \in Items : Shown(i) # "download"

\* C13 witness: while item a is in transfer and has reported progress, the
\* button of another item was pressed, and one transfer is in flight.
C13_PressedWhileRunning ==
  /\ process.running /\ process.item = "a" /\ process.progress > 0
  /\ pressOutcome = "nothing" /\ activeTransfers = 1

\* C14: a download requested for an item that is flagged non-downloadable, or
\* whose media source is known not to support direct play, is rejected and
\* starts no transfer; a transfer starts only for a downloadable item whose
\* media source supports direct play; and the request leaves the playback
\* session as it was.
C14_NotDownloadableRejected ==
  [][ \A i \in Items :
        PressDownload(i) =>
          /\ (~canDownload[i] \/ playbackInfo[i] \in {"nodirect", "unknown"})
               => /\ pressOutcome' = "rejected"
                  /\ activeTransfers' = activeTransfers
                  /\ process' = process
          /\ (activeTransfers' > activeTransfers)
               => (canDownload[i] /\ playbackInfo[i] = "direct")
          /\ UNCHANGED sessionVars ]_vars

C16_NoRequestWithoutPrerequisites ==
  (~api \/ ~ItemLoaded) => (streamStatus = "idle" /\ ~stream.ok)

\* C16 witness: there is no client, the item query has failed, the bitrate
\* has been changed, and the stream query is idle.
C16_KeyChangedWithoutClient ==
  /\ ~api /\ itemStatus = "error" /\ bitrateValue # LaunchBitrate
  /\ streamStatus = "idle"

\* C17: a start or progress report carries the play method of the stream
\* descriptor that is current when the report is sent.
C17_PlayMethodOfCurrentStream ==
  [][ (sent'.kind \in {"start", "progress"})
        => (sent'.playMethod = PlayMethod(stream')) ]_vars

\* C19 as stated: the start offset of the source is 0 for an item without a
\* position, the position divided by 10000 for a position of whole
\* milliseconds, and 12000 for the position 1200000000.
C19_StartOffsetAsStated ==
  (startPosition # NoSource) =>
    /\ (playbackPositionTicks = NoTicks) => (startPosition = 0)
    /\ (playbackPositionTicks # NoTicks
          /\ playbackPositionTicks % TicksPerMillisecond = 0)
         => (startPosition * TicksPerMillisecond = playbackPositionTicks)
    /\ (playbackPositionTicks = 1200000000) => (startPosition = 12000)

\* C19: the start offset of the source is 0 for an item without a position,
\* and otherwise the whole number of milliseconds nearest to the position
\* divided by 10000, a half going upwards; it is 120000 for the position
\* 1200000000.
C19_StartOffsetNearestMillisecond ==
  (startPosition # NoSource) =>
    /\ (playbackPositionTicks = NoTicks) => (startPosition = 0)
    /\ (playbackPositionTicks # NoTicks)
         => (startPosition * TicksPerMillisecond - playbackPositionTicks
               \in -4999..5000)
    /\ (playbackPositionTicks = 1200000000) => (startPosition = 120000)

\* C19 witness: the source of an item at 1200000000 ticks starts at 120000.
C19_TwoMinutesIn ==
  /\ playbackPositionTicks = 1200000000 /\ startPosition = 120000
  /\ ItemLoaded /\ stream.ok /\ streamStatus = "success"

\* C20: when the service rejects a start, progress or stopped report, the
\* position, isPlaying, isBuffering, isSeeking, isPlaybackStopped, the engine
\* and the queries are left as they are, which is also how an accepted report
\* leaves them, and the step sends no report again.
C20_FailedReportChangesNothing ==
  [][ (ReportRejected \/ ReportAccepted)
        => /\ UNCHANGED <<playerVars, engineVars, lifeVars, queryVars>>
           /\ UNCHANGED <<startReports, stoppedReports>>
           /\ sent'.kind = "none" ]_vars

\* C20 witness: a report has been rejected, and the session is playing and
\* has reported a later position.
C20_PlayingAfterRejection ==
  /\ settled = "rejected" /\ sent.kind = "progress"
  /\ isPlaying /\ enginePlaying /\ ~isPlaybackStopped
  /\ progress = sent.positionTicks /\ progress > 0

\* C18: with the item loaded, a step that changes audioIndex, subtitleIndex,
\* bitrateValue or mediaSourceId sends one negotiation request, for the new
\* values, and a step that changes none of them sends none; the last request
\* is always the one for the current values.
C18_ResolvedOnParameterChange ==
  [][ /\ (ItemLoaded /\ StreamKey' # StreamKey)
           => /\ resolutions' = resolutions + 1
              /\ fetchKey' = StreamKey'
              /\ streamStatus' \in {"loading", "refetching"}
      /\ (ItemLoaded /\ StreamKey' = StreamKey)
           => (resolutions' = resolutions /\ fetchKey' = fetchKey)
      /\ ItemLoaded' => (fetchKey' = StreamKey') ]_vars

\* C18 witness: the item has been refreshed once and audioIndex changed once;
\* two requests went out, and the second one's descriptor is in use.
C18_ResolvedTwiceRefreshedOnce ==
  /\ itemSnapshots = 1 /\ resolutions = 2
  /\ audioIndex # NoIndex /\ subtitleIndex = NoIndex
  /\ bitrateValue = LaunchBitrate /\ mediaSourceId = ""
  /\ streamStatus = "success" /\ stream.ok

\* C21: setSubtitleTrack(i) and setAudioTrack(i) set the one selection they
\* are about and nothing else: the other selection, position, isPlaying,
\* isBuffering, isSeeking, isPlaybackStopped, the engine, the stream
\* descriptor and the stream query are left as they are, no negotiation
\* request goes out and no report is sent.
C21_TrackSelectionOnly ==
  [][ \A i \in TrackIndexes :
        /\ SetSubtitleTrack(i)
             => /\ selectedTextTrack' = [set |-> TRUE, value |-> i]
                /\ selectedAudioTrack' = selectedAudioTrack
        /\ SetAudioTrack(i)
             => /\ selectedAudioTrack' = [set |-> TRUE, value |-> i]
                /\ selectedTextTrack' = selectedTextTrack
        /\ (SetSubtitleTrack(i) \/ SetAudioTrack(i))
             => /\ UNCHANGED <<playerVars, engineVars, queryVars, resolveVars>>
                /\ UNCHANGED <<startReports, stoppedReports>>
                /\ sent'.kind = "none" ]_vars

\* C21 witness: both tracks have been selected in a session that is playing
\* past its start on a resolved stream.
C21_SelectedWhilePlaying ==
  /\ selectedTextTrack = [set |-> TRUE, value |-> 1]
  /\ selectedAudioTrack = [set |-> TRUE, value |-> 1]
  /\ isPlaying /\ enginePlaying /\ progress > 0
  /\ streamStatus = "success" /\ stream.ok

\* C22: in a stopped session an engine progress sample leaves the recorded
\* position and the buffering flag as they are, and once the "stopped" report
\* has been sent no step sends a progress report.
C22_StoppedDiscardsSamples ==
  [][ /\ (isPlaybackStopped
            /\ \E t \in 0..MaxTime, d \in {0, MaxTime} : OnProgress(t, d))
           => (progress' = progress /\ isBuffering' = isBuffering)
      /\ (stoppedReports > 0) => (sent'.kind # "progress") ]_vars

\* C23: a track-discovery event that finds a subtitle track selected leaves
\* the selection as it is.
C23_DiscoveryKeepsSelection ==
  [][ (selectedTextTrack.set /\ OnTextTracks)
        => (selectedTextTrack' = selectedTextTrack) ]_vars

\* C23 witness: the user selected a track before the engine announced its
\* tracks; the requested subtitle stream is in the catalog at another
\* position, the tracks have been announced, and the user's track is still
\* the selected one.
C23_UserChoiceKept ==
  LET subs == textSubs(mediaStreams)
      chosen == findIndex(subs, subtitleIndex)
  IN /\ selectedTextTrack.set /\ applied = 0 /\ discoveries > 0
     /\ chosen # 0
     /\ indexOf(uniqueTextSubs(mediaStreams), subs[chosen]) \in TrackIndexes
     /\ selectedTextTrack.value
          # indexOf(uniqueTextSubs(mediaStreams), subs[chosen])

\* C24: a playback-state-changed event of the engine leaves isPlaying as it
\* is while isSeeking is true, and sets it to the value the engine reports
\* when isSeeking is false.
C24_StateEventRespectsSeeking ==
  [][ OnPlaybackStateChanged
        => (isPlaying' = (IF isSeeking THEN isPlaying
                                       ELSE Head(stateEvents))) ]_vars

\* C24 witness: during a seek the engine has resumed and its event has been
\* taken, and isPlaying is still false.
C24_ResumedDuringSeek ==
  /\ isSeeking /\ engineLoaded /\ enginePlaying /\ stateEvents = <<>>
  /\ ~isPlaying /\ lastIntent = "play"

====
